---- MODULE Spec2Model ----
(***************************************************************************)
(* A model of sphinxwrapper's PocketSphinx class (pocketsphinx_wrap.py):   *)
(* the utterance state tracker, process_audio / batch_process, the         *)
(* callback slots and set_kws_list with its temporary keyword file.        *)
(*                                                                         *)
(* The wrapped pocketsphinx Decoder is a collaborator outside the          *)
(* repository.  What it answers (speech detected or not, the hypothesis,   *)
(* whether it raises) is drawn nondeterministically; the calls that reach  *)
(* it are logged in `calls`.                                               *)
(***************************************************************************)
EXTENDS Naturals, Sequences, FiniteSets

(* ------------------------------ bounds -------------------------------- *)
\* number of audio buffers fed to the session since its construction
MaxFed == 4
\* number of distinct temporary file names the disk can hold
MaxFiles == 1
\* longest list or tuple of pairs handed to set_kws_list
MaxKws == 1

(* ------------------------------ values -------------------------------- *)
\* Python's None
None == "None"
\* the sentinel objects _UTT_IDLE, _UTT_STARTED, _UTT_ENDED
UTT_IDLE == "idle"
\* (a started sentinel that is not distinct from the idle one)
UTT_SAME_AS_IDLE == "idle"
UTT_STARTED == "started"
UTT_ENDED == "ended"

\* values a caller may assign to a callback slot: None, two callables and a
\* value that is neither (the integer 5)
Callables == {"f", "g"}
NonCallables == {"5"}
SlotInputs == {None} \cup Callables \cup NonCallables

\* what the decoder's hyp() may return: None or a Hypothesis object
Hyps == {None, "hyp1", "hyp2"}

\* one audio buffer, by what the decoder does with it: process_raw accepts it
\* and get_in_speech then reports speech or silence, or process_raw raises
Buffers == {"speech", "silence", "bad"}

VARIABLES
    utterance_state,        \* self._utterance_state
    speech_start_callback,  \* self._speech_start_callback
    hypothesis_callback,    \* self._hypothesis_callback
    in_utt,                 \* the decoder's own utterance flag
    searches,               \* names of the searches registered with the decoder
    files,                  \* the paths of the temporary files on disk
    last,                   \* the last operation: [op, arg, ret, err]
    calls,                  \* decoder calls made by the last operation
    cbs,                    \* callback invocations made by the last operation
    moves,                  \* assignments to _utterance_state made by the last
                            \* operation: [from, to, at], at = decoder calls before
    fed,                    \* buffers handed to process_raw since construction
    plain,                  \* so far only process_audio / batch_process calls
                            \* that returned normally (and slot assignments)
    cb_always,              \* every such call had use_callbacks and both slots set
    heard,                  \* the decoder's speech reports while plain, in order
    fired                   \* callbacks invoked while plain, in order

vars == <<utterance_state, speech_start_callback, hypothesis_callback, in_utt,
          searches, files, last, calls, cbs, moves, fed, plain, cb_always, heard,
          fired>>

audio_vars == <<utterance_state, in_utt>>
slot_vars == <<speech_start_callback, hypothesis_callback>>
kws_vars == <<searches, files>>
hist_vars == <<fed, plain, cb_always, heard, fired>>

(* --------------------------- small helpers ---------------------------- *)
\* all sequences over S of length at most n
RECURSIVE SeqsUpTo(_, _)
SeqsUpTo(S, n) ==
    IF n = 0 THEN {<<>>}
    ELSE LET shorter == SeqsUpTo(S, n - 1)
         IN shorter \cup {Append(q, x) : q \in {r \in shorter : Len(r) = n - 1}, x \in S}

\* one logged decoder call
Call(op, val) == [op |-> op, val |-> val]

\* the values of the calls named op, in order
RECURSIVE ValuesOf(_, _)
ValuesOf(log, op) ==
    IF log = <<>> THEN <<>>
    ELSE LET rest == ValuesOf(Tail(log), op)
         IN IF Head(log).op = op THEN <<Head(log).val>> \o rest ELSE rest

\* the number of calls named op
Count(log, op) == Len(ValuesOf(log, op))

(* ---------------------- the session as a record ----------------------- *)
\* The fields an audio operation reads and writes, gathered so that the
\* methods below are functions from session to session.
Session ==
    [utterance_state |-> utterance_state,
     speech_start_callback |-> speech_start_callback,
     hypothesis_callback |-> hypothesis_callback,
     in_utt |-> in_utt,
     calls |-> <<>>,
     cbs |-> <<>>,
     moves |-> <<>>]

\* the outcome of a method: the session after it, the value returned and the
\* exception raised (None: it returned normally)
Outcome(s, ret, err) == [s |-> s, ret |-> ret, err |-> err]

(* ------------------------ utterance properties ------------------------ *)
utt_idle(s) == s.utterance_state = UTT_IDLE

utt_started(s) == s.utterance_state = UTT_STARTED

utt_ended(s) == s.utterance_state = UTT_ENDED

(* ------------------------- start_utt / end_utt ------------------------ *)
\* self._utterance_state = to
SetState(s, to) ==
    [s EXCEPT !.utterance_state = to,
              !.moves = Append(@, [from |-> s.utterance_state, to |-> to,
                                   at |-> Len(s.calls)])]

\* super().start_utt(): the decoder opens an utterance
Decoder_start_utt(s) ==
    [s EXCEPT !.calls = Append(@, Call("start_utt", s.in_utt)), !.in_utt = TRUE]

\* super().end_utt(): the decoder closes its utterance
Decoder_end_utt(s) ==
    [s EXCEPT !.calls = Append(@, Call("end_utt", s.in_utt)), !.in_utt = FALSE]

\* start_utt without its guard
start_utt_unguarded(s) ==
    SetState(Decoder_start_utt(s), UTT_IDLE)

\* start_utt forgetting the decoder
start_utt_forgets_decoder(s) ==
    IF utt_ended(s)
    THEN SetState(s, UTT_IDLE)
    ELSE s

start_utt(s) ==
    IF utt_ended(s)
    THEN SetState(Decoder_start_utt(s), UTT_IDLE)
    ELSE s

\* end_utt with its guard inverted
end_utt_inverted_guard(s) ==
    IF utt_ended(s)
    THEN SetState(Decoder_end_utt(s), UTT_ENDED)
    ELSE s

\* end_utt forgetting to record that the utterance ended
end_utt_keeps_state(s) ==
    IF ~utt_ended(s)
    THEN Decoder_end_utt(s)
    ELSE s

end_utt(s) ==
    IF ~utt_ended(s)
    THEN SetState(Decoder_end_utt(s), UTT_ENDED)
    ELSE s

(* ---------------------------- get_in_speech --------------------------- *)
\* super().get_in_speech() answering in_speech
Decoder_get_in_speech(s, in_speech) ==
    [s EXCEPT !.calls = Append(@, Call("get_in_speech", in_speech))]

\* get_in_speech moving idle -> started whatever the decoder answers
get_in_speech_always_starts(s, in_speech) ==
    LET s1 == Decoder_get_in_speech(s, in_speech)
    IN IF utt_idle(s1)
       THEN SetState(s1, UTT_STARTED)
       ELSE s1

\* get_in_speech when the decoder answers in_speech; the session afterwards
\* (the method returns in_speech itself)
get_in_speech(s, in_speech) ==
    LET s1 == Decoder_get_in_speech(s, in_speech)
    IN IF in_speech /\ utt_idle(s1)
       THEN SetState(s1, UTT_STARTED)
       ELSE s1

(* ---------------------------- process_audio --------------------------- *)
\* self.process_raw(buf, no_search, full_utterance), accepted by the decoder
Decoder_process_raw(s, buf) ==
    [s EXCEPT !.calls = Append(@, Call("process_raw", s.in_utt))]

\* self.hyp() answering h
Decoder_hyp(s, h) ==
    [s EXCEPT !.calls = Append(@, Call("hyp", h))]

\* self.speech_start_callback()
call_speech_start(s) ==
    [s EXCEPT !.cbs = Append(@, [cb |-> "speech_start",
                                 fn |-> s.speech_start_callback, arg |-> None])]

\* self.hypothesis_callback(hyp)
call_hypothesis(s, hyp) ==
    [s EXCEPT !.cbs = Append(@, [cb |-> "hypothesis",
                                 fn |-> s.hypothesis_callback, arg |-> hyp])]

\* process_audio taking its was_idle snapshot after the speech query
process_audio_late_snapshot(s, buf, use_callbacks) ==
    LET s1 == IF utt_ended(s) THEN start_utt(s) ELSE s
        s2 == Decoder_process_raw(s1, buf)
        in_speech == (buf = "speech")
        s3 == get_in_speech(s2, in_speech)
        was_idle == utt_idle(s3)
        s4 == end_utt(s3)
    IN IF buf = "bad"
       THEN {Outcome(s2, None, "RuntimeError")}
       ELSE IF in_speech /\ was_idle /\ utt_started(s3)
       THEN IF use_callbacks /\ s3.speech_start_callback # None
            THEN {Outcome(call_speech_start(s3), None, None)}
            ELSE {Outcome(s3, None, None)}
       ELSE IF ~in_speech /\ utt_started(s3)
       THEN {IF use_callbacks /\ s4.hypothesis_callback # None
             THEN Outcome(call_hypothesis(Decoder_hyp(s4, hyp), hyp), None, None)
             ELSE IF ~use_callbacks
             THEN Outcome(Decoder_hyp(s4, hyp), hyp, None)
             ELSE Outcome(Decoder_hyp(s4, hyp), None, None) : hyp \in Hyps}
       ELSE {Outcome(s3, None, None)}

\* The outcomes of process_audio(buf, use_callbacks=use_callbacks): one per
\* hypothesis the decoder may answer when hyp() is called.
\* process_audio without the snapshot: "if in_speech and self.utt_started"
process_audio_no_snapshot(s, buf, use_callbacks) ==
    LET s1 == IF utt_ended(s) THEN start_utt(s) ELSE s
        s2 == Decoder_process_raw(s1, buf)
        in_speech == (buf = "speech")
        s3 == get_in_speech(s2, in_speech)
        s4 == end_utt(s3)
    IN IF buf = "bad"
       THEN {Outcome(s2, None, "RuntimeError")}
       ELSE IF in_speech /\ utt_started(s3)
       THEN IF use_callbacks /\ s3.speech_start_callback # None
            THEN {Outcome(call_speech_start(s3), None, None)}
            ELSE {Outcome(s3, None, None)}
       ELSE IF ~in_speech /\ utt_started(s3)
       THEN {IF use_callbacks /\ s4.hypothesis_callback # None
             THEN Outcome(call_hypothesis(Decoder_hyp(s4, hyp), hyp), None, None)
             ELSE IF ~use_callbacks
             THEN Outcome(Decoder_hyp(s4, hyp), hyp, None)
             ELSE Outcome(Decoder_hyp(s4, hyp), None, None) : hyp \in Hyps}
       ELSE {Outcome(s3, None, None)}

\* process_audio ignoring use_callbacks: "if self.hypothesis_callback:" and,
\* without a callback, "return hyp"
process_audio_ignores_flag(s, buf, use_callbacks) ==
    LET s1 == IF utt_ended(s) THEN start_utt(s) ELSE s
        s2 == Decoder_process_raw(s1, buf)
        was_idle == utt_idle(s2)
        in_speech == (buf = "speech")
        s3 == get_in_speech(s2, in_speech)
        s4 == end_utt(s3)
    IN IF buf = "bad"
       THEN {Outcome(s2, None, "RuntimeError")}
       ELSE IF in_speech /\ was_idle /\ utt_started(s3)
       THEN IF use_callbacks /\ s3.speech_start_callback # None
            THEN {Outcome(call_speech_start(s3), None, None)}
            ELSE {Outcome(s3, None, None)}
       ELSE IF ~in_speech /\ utt_started(s3)
       THEN {IF s4.hypothesis_callback # None
             THEN Outcome(call_hypothesis(Decoder_hyp(s4, hyp), hyp), None, None)
             ELSE Outcome(Decoder_hyp(s4, hyp), hyp, None) : hyp \in Hyps}
       ELSE {Outcome(s3, None, None)}

process_audio(s, buf, use_callbacks) ==
    LET s1 == IF utt_ended(s) THEN start_utt(s) ELSE s
        s2 == Decoder_process_raw(s1, buf)
        was_idle == utt_idle(s2)
        in_speech == (buf = "speech")
        s3 == get_in_speech(s2, in_speech)
        s4 == end_utt(s3)
    IN IF buf = "bad"
       THEN {Outcome(s2, None, "RuntimeError")}
       ELSE IF in_speech /\ was_idle /\ utt_started(s3)
       THEN IF use_callbacks /\ s3.speech_start_callback # None
            THEN {Outcome(call_speech_start(s3), None, None)}
            ELSE {Outcome(s3, None, None)}
       ELSE IF ~in_speech /\ utt_started(s3)
       THEN {IF use_callbacks /\ s4.hypothesis_callback # None
             THEN Outcome(call_hypothesis(Decoder_hyp(s4, hyp), hyp), None, None)
             ELSE IF ~use_callbacks
             THEN Outcome(Decoder_hyp(s4, hyp), hyp, None)
             ELSE Outcome(Decoder_hyp(s4, hyp), None, None) : hyp \in Hyps}
       ELSE {Outcome(s3, None, None)}

(* ---------------------------- batch_process --------------------------- *)
\* Python truthiness of what process_audio returned: None is false, a
\* Hypothesis object is true
Truthy(v) == v # None

\* the loop of batch_process from the state s with `result` captured so far
RECURSIVE batch_loop(_, _, _, _)

\* the loop storing whatever process_audio returned, None included
batch_loop_overwrite(s, result, buffers, use_callbacks) ==
    IF buffers = <<>>
    THEN {Outcome(s, result, None)}
    ELSE UNION {
           IF o.err # None
           THEN {Outcome(o.s, None, o.err)}
           ELSE IF use_callbacks
           THEN batch_loop(o.s, result, Tail(buffers), use_callbacks)
           ELSE batch_loop(o.s, o.ret, Tail(buffers), use_callbacks)
           : o \in process_audio(s, Head(buffers), use_callbacks)}

batch_loop(s, result, buffers, use_callbacks) ==
    IF buffers = <<>>
    THEN {Outcome(s, result, None)}
    ELSE UNION {
           IF o.err # None
           THEN {Outcome(o.s, None, o.err)}
           ELSE IF use_callbacks
           THEN batch_loop(o.s, result, Tail(buffers), use_callbacks)
           ELSE batch_loop(o.s, IF Truthy(o.ret) THEN o.ret ELSE result,
                           Tail(buffers), use_callbacks)
           : o \in process_audio(s, Head(buffers), use_callbacks)}

batch_process(s, buffers, use_callbacks) ==
    batch_loop(s, None, buffers, use_callbacks)

(* --------------------------- callback setters ------------------------- *)
\* Python's callable(value)
callable(value) == value \in Callables

\* the speech_start_callback setter on a slot holding old: the value the slot
\* holds afterwards and the exception raised
speech_start_callback_setter(old, value) ==
    IF ~callable(value) /\ value # None
    THEN [slot |-> old, err |-> "TypeError"]
    ELSE [slot |-> value, err |-> None]

\* the setter storing the value before it validates it
hypothesis_callback_setter_stores_first(old, value) ==
    IF ~callable(value) /\ value # None
    THEN [slot |-> value, err |-> "TypeError"]
    ELSE [slot |-> value, err |-> None]

\* the hypothesis_callback setter
hypothesis_callback_setter(old, value) ==
    IF ~callable(value) /\ value # None
    THEN [slot |-> old, err |-> "TypeError"]
    ELSE [slot |-> value, err |-> None]

(* ----------------------------- set_kws_list --------------------------- *)
\* search names, phrases and threshold values offered to set_kws_list
Names == {"kw1", "kw2"}
Phrases == {"hello world", "test"}
Numbers == {"1e-20"}
Thresholds == Numbers \cup {"bad"}
Pairs == Phrases \X Thresholds

\* isinstance(threshold, numbers.Number)
IsNumber(threshold) == threshold \in Numbers

\* temporary file names; NoPath: tempfile could not create a file
Paths == 1..MaxFiles
NoPath == 0

\* d[words] = threshold on a dict kept as its items in insertion order
DictSet(d, words, threshold) ==
    IF \E i \in 1..Len(d) : d[i][1] = words
    THEN [i \in 1..Len(d) |-> IF d[i][1] = words THEN <<words, threshold>> ELSE d[i]]
    ELSE Append(d, <<words, threshold>>)

\* dict(kws_list) for a list or tuple of pairs
RECURSIVE dict(_)
dict(pairs) ==
    IF pairs = <<>> THEN <<>>
    ELSE LET front == SubSeq(pairs, 1, Len(pairs) - 1)
             p == pairs[Len(pairs)]
         IN DictSet(dict(front), p[1], p[2])

\* keyword lists a caller may pass: None, a list or tuple of pairs, or a dict
\* (its items in insertion order, no phrase twice)
UniqueKeys(q) == \A i, j \in 1..Len(q) : q[i][1] = q[j][1] => i = j
KwsLists ==
    {[kind |-> "None", items |-> <<>>]}
    \cup {[kind |-> c, items |-> q] : c \in {"list", "tuple"}, q \in SeqsUpTo(Pairs, MaxKws)}
    \cup {[kind |-> "dict", items |-> q] :
             q \in {r \in SeqsUpTo(Pairs, Cardinality(Phrases)) : UniqueKeys(r)}}

\* a guard that only tests for None
Falsy_none_only(kws_list) == kws_list.kind = "None"

\* `not kws_list`
Falsy(kws_list) == kws_list.kind = "None" \/ kws_list.items = <<>>

\* "%s /%s/\n" % (words, threshold)
Line(words, threshold) == [words |-> words, slash |-> threshold]

\* the files with path mapped to file f
WithFile(fs, path, f) ==
    [p \in DOMAIN fs \cup {path} |-> IF p = path THEN f ELSE fs[p]]

\* os.remove(path)
os_remove(fs, path) == [p \in DOMAIN fs \ {path} |-> fs[p]]

\* tempfile.NamedTemporaryFile(mode="a", delete=False): a new, empty, open file
NamedTemporaryFile(fs, path) ==
    WithFile(fs, path, [lines |-> <<>>, closed |-> FALSE])

\* the for loop over kws_list.items(): the lines written and whether the loop
\* raised PocketSphinxError
\* the write loop skipping a phrase whose threshold is not a number
RECURSIVE write_loop_skips_bad(_, _)
write_loop_skips_bad(lines, items) ==
    IF items = <<>> THEN [lines |-> lines, raised |-> FALSE]
    ELSE IF ~IsNumber(Head(items)[2])
    THEN write_loop_skips_bad(lines, Tail(items))
    ELSE write_loop_skips_bad(Append(lines, Line(Head(items)[1], Head(items)[2])),
                              Tail(items))

RECURSIVE write_loop(_, _)
write_loop(lines, items) ==
    IF items = <<>> THEN [lines |-> lines, raised |-> FALSE]
    ELSE IF ~IsNumber(Head(items)[2])
    THEN [lines |-> lines, raised |-> TRUE]
    ELSE write_loop(Append(lines, Line(Head(items)[1], Head(items)[2])), Tail(items))

\* self.set_kws(name, tf.name): the call as the decoder sees it, with the
\* state of the file at that moment; the decoder registers the search when
\* it accepts the file and raises otherwise
Decoder_set_kws(k, name, path, accepts) ==
    [k EXCEPT !.calls = Append(@, Call("set_kws",
                [name |-> name, path |-> path,
                 exists |-> path \in DOMAIN k.files,
                 closed |-> path \in DOMAIN k.files /\ k.files[path].closed,
                 lines |-> IF path \in DOMAIN k.files THEN k.files[path].lines ELSE <<>>,
                 raised |-> ~accepts])),
              !.searches = IF accepts THEN @ \cup {name} ELSE @]

\* The decoder and the disk as set_kws_list sees them: the registered
\* searches, the temporary files with their contents (the files that were
\* there before the call are closed; their contents play no part) and the
\* decoder calls made so far.
KwsSession ==
    [searches |-> searches,
     files |-> [p \in files |-> [lines |-> <<>>, closed |-> TRUE]],
     calls |-> <<>>]

\* set_kws_list handing the file to the decoder without closing it first
set_kws_list_no_close(k, name, kws_list, path, accepts) ==
    LET d == IF kws_list.kind \in {"list", "tuple"}
             THEN dict(kws_list.items) ELSE kws_list.items
        k1 == [k EXCEPT !.files = NamedTemporaryFile(k.files, path)]
        w == write_loop(<<>>, d)
        k2 == [k1 EXCEPT !.files[path].lines = w.lines]
        k4 == Decoder_set_kws(k2, name, path, accepts)
        k5 == [k4 EXCEPT !.files = os_remove(@, path)]
    IN IF Falsy(kws_list) THEN [k |-> k, err |-> None]
       ELSE IF path = NoPath THEN [k |-> k, err |-> "OSError"]
       ELSE IF w.raised THEN [k |-> k2, err |-> "PocketSphinxError"]
       ELSE IF ~accepts THEN [k |-> k4, err |-> "RuntimeError"]
       ELSE [k |-> k5, err |-> None]

\* set_kws_list(name, kws_list) when tempfile picks `path` (NoPath: it fails)
\* and the decoder accepts the keyword file or not
set_kws_list(k, name, kws_list, path, accepts) ==
    LET d == IF kws_list.kind \in {"list", "tuple"}
             THEN dict(kws_list.items) ELSE kws_list.items
        k1 == [k EXCEPT !.files = NamedTemporaryFile(k.files, path)]
        w == write_loop(<<>>, d)
        k2 == [k1 EXCEPT !.files[path].lines = w.lines]
        k3 == [k2 EXCEPT !.files[path].closed = TRUE]
        k4 == Decoder_set_kws(k3, name, path, accepts)
        k5 == [k4 EXCEPT !.files = os_remove(@, path)]
    IN IF Falsy(kws_list) THEN [k |-> k, err |-> None]
       ELSE IF path = NoPath THEN [k |-> k, err |-> "OSError"]
       ELSE IF w.raised THEN [k |-> k2, err |-> "PocketSphinxError"]
       ELSE IF ~accepts THEN [k |-> k4, err |-> "RuntimeError"]
       ELSE [k |-> k5, err |-> None]

(* ------------------------------- Init --------------------------------- *)
\* the session after __init__
Init ==
    /\ utterance_state = UTT_ENDED
    /\ speech_start_callback = None
    /\ hypothesis_callback = None
    /\ in_utt = FALSE
    /\ searches = {}
    /\ files = {}
    /\ last = [op |-> "init", arg |-> None, ret |-> None, err |-> None]
    /\ calls = <<>>
    /\ cbs = <<>>
    /\ moves = <<>>
    /\ fed = 0
    /\ plain = TRUE
    /\ cb_always = TRUE
    /\ heard = <<>>
    /\ fired = <<>>

(* ------------------------------ actions ------------------------------- *)
\* the names of the callbacks of an invocation log
Fired(log) == [i \in 1..Len(log) |-> log[i].cb]

\* the session fields, the logs and the history after an audio call with
\* outcome o
AfterAudio(op, use_callbacks, o) ==
    LET ok == plain /\ o.err = None
    IN /\ utterance_state' = o.s.utterance_state
       /\ in_utt' = o.s.in_utt
       /\ calls' = o.s.calls
       /\ cbs' = o.s.cbs
       /\ moves' = o.s.moves
       /\ last' = [op |-> op, arg |-> use_callbacks, ret |-> o.ret, err |-> o.err]
       /\ plain' = ok
       /\ cb_always' = (ok /\ cb_always /\ use_callbacks
                           /\ speech_start_callback # None
                           /\ hypothesis_callback # None)
       /\ heard' = IF ok THEN heard \o ValuesOf(o.s.calls, "get_in_speech") ELSE <<>>
       /\ fired' = IF ok THEN fired \o Fired(o.s.cbs) ELSE <<>>
       /\ fed' = fed + Count(o.s.calls, "process_raw")
       /\ UNCHANGED <<slot_vars, kws_vars>>

\* the session fields and the logs after a direct call that leaves session s
AfterDirect(op, arg, s, ret) ==
    /\ utterance_state' = s.utterance_state
    /\ in_utt' = s.in_utt
    /\ calls' = s.calls
    /\ cbs' = s.cbs
    /\ moves' = s.moves
    /\ last' = [op |-> op, arg |-> arg, ret |-> ret, err |-> None]
    /\ plain' = FALSE
    /\ cb_always' = FALSE
    /\ heard' = <<>>
    /\ fired' = <<>>
    /\ UNCHANGED <<fed, slot_vars, kws_vars>>

ProcessAudio ==
    /\ fed < MaxFed
    /\ \E buf \in Buffers, use_callbacks \in BOOLEAN :
         \E o \in process_audio(Session, buf, use_callbacks) :
           AfterAudio("process_audio", use_callbacks, o)

BatchProcess ==
    \E buffers \in SeqsUpTo(Buffers, MaxFed - fed), use_callbacks \in BOOLEAN :
      \E o \in batch_process(Session, buffers, use_callbacks) :
        AfterAudio("batch_process", use_callbacks, o)

GetInSpeech ==
    \E in_speech \in BOOLEAN :
      AfterDirect("get_in_speech", None, get_in_speech(Session, in_speech), in_speech)

StartUtt == AfterDirect("start_utt", None, start_utt(Session), None)

EndUtt == AfterDirect("end_utt", None, end_utt(Session), None)

SetSpeechStartCallback ==
    \E value \in SlotInputs :
      LET r == speech_start_callback_setter(speech_start_callback, value)
      IN /\ speech_start_callback' = r.slot
         /\ last' = [op |-> "speech_start_callback", arg |-> value,
                     ret |-> None, err |-> r.err]
         /\ calls' = <<>>
         /\ cbs' = <<>>
         /\ moves' = <<>>
         /\ UNCHANGED <<hypothesis_callback, audio_vars, kws_vars, hist_vars>>

SetHypothesisCallback ==
    \E value \in SlotInputs :
      LET r == hypothesis_callback_setter(hypothesis_callback, value)
      IN /\ hypothesis_callback' = r.slot
         /\ last' = [op |-> "hypothesis_callback", arg |-> value,
                     ret |-> None, err |-> r.err]
         /\ calls' = <<>>
         /\ cbs' = <<>>
         /\ moves' = <<>>
         /\ UNCHANGED <<speech_start_callback, audio_vars, kws_vars, hist_vars>>

SetKwsList ==
    \E name \in Names, kws_list \in KwsLists, accepts \in BOOLEAN :
      \E path \in IF Paths \subseteq files THEN {NoPath} ELSE Paths \ files :
        LET r == set_kws_list(KwsSession, name, kws_list, path, accepts)
        IN /\ searches' = r.k.searches
           /\ files' = DOMAIN r.k.files
           /\ calls' = r.k.calls
           /\ cbs' = <<>>
           /\ moves' = <<>>
           /\ last' = [op |-> "set_kws_list",
                       arg |-> [name |-> name, kws_list |-> kws_list, path |-> path],
                       ret |-> None, err |-> r.err]
           /\ UNCHANGED <<audio_vars, slot_vars, hist_vars>>

Next ==
    \/ ProcessAudio
    \/ BatchProcess
    \/ GetInSpeech
    \/ StartUtt
    \/ EndUtt
    \/ SetSpeechStartCallback
    \/ SetHypothesisCallback
    \/ SetKwsList

Spec == Init /\ [][Next]_vars

\* set_kws_list reads and writes the decoder's searches and the disk only,
\* and no other operation touches either: the audio side and the keyword
\* side of the session are explored separately.
AudioNext ==
    \/ ProcessAudio
    \/ BatchProcess
    \/ GetInSpeech
    \/ StartUtt
    \/ EndUtt
    \/ SetSpeechStartCallback
    \/ SetHypothesisCallback

AudioSpec == Init /\ [][AudioNext]_vars

KwsNext ==
    \/ SetKwsList
    \/ StartUtt
    \/ EndUtt

KwsSpec == Init /\ [][KwsNext]_vars

(* ======================= properties of the session ===================== *)
\* what the last operation made the decoder report and answer
Reports == ValuesOf(calls, "get_in_speech")
HypsAnswered == ValuesOf(calls, "hyp")

\* h is silence* speech+ silence+
SilenceSpeechSilence(h) ==
    \E i \in 0..Len(h), j \in 1..Len(h) :
        /\ i < j /\ j < Len(h)
        /\ \A n \in 1..Len(h) : h[n] = (i < n /\ n <= j)

\* h is speech+ silence speech+ silence: two complete utterances
TwoUtterances(h) ==
    \E i \in 1..Len(h), j \in 1..Len(h) :
        /\ i + 1 < j /\ j + 1 = Len(h)
        /\ \A n \in 1..Len(h) : h[n] = (n # i + 1 /\ n # j + 1)

\* C1: from a fresh session, with both callbacks registered and use_callbacks
\* true in every call, once the decoder's speech reports read silence*
\* speech+ silence+ the process_audio calls have invoked the speech-start
\* callback exactly once and the hypothesis callback exactly once, in that order.
C1_StartThenHypothesisOnce ==
    (plain /\ cb_always /\ SilenceSpeechSilence(heard))
        => fired = <<"speech_start", "hypothesis">>

C1_Witness ==
    /\ plain /\ cb_always
    /\ heard = <<FALSE, TRUE, FALSE>>
    /\ last.op = "process_audio"
    /\ fired = <<"speech_start", "hypothesis">>

\* C2: in every reachable state exactly one of utt_idle, utt_started and
\* utt_ended is true, and the session starts out ended.
C2_ExactlyOneState ==
    /\ utt_idle(Session) \/ utt_started(Session) \/ utt_ended(Session)
    /\ ~(utt_idle(Session) /\ utt_started(Session))
    /\ ~(utt_idle(Session) /\ utt_ended(Session))
    /\ ~(utt_started(Session) /\ utt_ended(Session))
    /\ last.op = "init" => utt_ended(Session)

C2_Witness ==
    /\ last.op = "batch_process"
    /\ utt_started(Session)
    /\ fed = MaxFed

\* C3: start_utt on an idle or started session and end_utt on an ended one
\* change neither the utterance state nor the slots nor the decoder, reach the
\* decoder with no call and raise nothing; start_utt never leaves the session
\* ended and end_utt always leaves it ended, so a second call of the same
\* operation is such a no-op.
C3_GuardsAreNoOps ==
    [][/\ ( \/ last'.op = "start_utt" /\ utterance_state # UTT_ENDED
            \/ last'.op = "end_utt" /\ utterance_state = UTT_ENDED )
          => /\ UNCHANGED <<utterance_state, in_utt, slot_vars, kws_vars>>
             /\ calls' = <<>>
             /\ last'.err = None
       /\ last'.op = "start_utt" => utterance_state' # UTT_ENDED
       /\ last'.op = "end_utt" => utterance_state' = UTT_ENDED]_vars

C3_Witness ==
    /\ last.op = "start_utt"
    /\ utterance_state = UTT_STARTED
    /\ calls = <<>>

\* C4: from a fresh session, while the decoder has reported no speech for any
\* buffer, process_audio and batch_process have invoked no callback, and a
\* batch_process with use_callbacks false has returned None.
C4_SilenceFiresNothing ==
    (plain /\ \A n \in 1..Len(heard) : ~heard[n])
        => /\ fired = <<>>
           /\ cbs = <<>>
           /\ (last.op = "batch_process" /\ ~last.arg) => last.ret = None

C4_Witness ==
    /\ plain
    /\ heard = <<FALSE, FALSE, FALSE>>
    /\ last.op = "batch_process" /\ ~last.arg
    /\ last.ret = None
    /\ speech_start_callback # None /\ hypothesis_callback # None

\* C5 as claimed: batch_process with use_callbacks false over two complete
\* utterances returns the decoder's hypothesis for the second one, whatever
\* the two hypotheses are.
C5_ReturnsSecondHypothesis ==
    (/\ last.op = "batch_process" /\ ~last.arg /\ last.err = None
     /\ TwoUtterances(Reports))
        => /\ Len(HypsAnswered) = 2
           /\ last.ret = HypsAnswered[2]

\* C5 amended: it returns the second utterance's hypothesis when that is not
\* None, and otherwise the first utterance's hypothesis.
C5_ReturnsLastNonEmptyHypothesis ==
    (/\ last.op = "batch_process" /\ ~last.arg /\ last.err = None
     /\ TwoUtterances(Reports))
        => /\ Len(HypsAnswered) = 2
           /\ last.ret = IF HypsAnswered[2] # None
                         THEN HypsAnswered[2] ELSE HypsAnswered[1]

C5_Witness ==
    /\ last.op = "batch_process" /\ ~last.arg /\ last.err = None
    /\ Reports = <<TRUE, FALSE, TRUE, FALSE>>
    /\ HypsAnswered = <<"hyp1", "hyp2">>
    /\ last.ret = "hyp2"

\* C9: assigning a value that is neither callable nor None to a callback slot
\* raises TypeError and leaves the slot as it was; assigning None or a
\* callable stores that value; either way the other slot and the utterance
\* state stay as they were.
C9_SetterValidates ==
    [][/\ last'.op = "speech_start_callback"
          => /\ IF last'.arg \in Callables \cup {None}
                THEN speech_start_callback' = last'.arg /\ last'.err = None
                ELSE speech_start_callback' = speech_start_callback
                     /\ last'.err = "TypeError"
             /\ UNCHANGED <<hypothesis_callback, utterance_state, in_utt>>
       /\ last'.op = "hypothesis_callback"
          => /\ IF last'.arg \in Callables \cup {None}
                THEN hypothesis_callback' = last'.arg /\ last'.err = None
                ELSE hypothesis_callback' = hypothesis_callback
                     /\ last'.err = "TypeError"
             /\ UNCHANGED <<speech_start_callback, utterance_state, in_utt>>]_vars

C9_Witness ==
    /\ last.op = "hypothesis_callback"
    /\ last.arg = "5"
    /\ last.err = "TypeError"
    /\ hypothesis_callback = "f"

\* C11: a process_audio call that ends an utterance (the state was started
\* and the decoder reports no speech) asks the decoder for one hypothesis;
\* with use_callbacks and a hypothesis callback set it invokes that callback
\* once with the hypothesis and returns None; without use_callbacks it invokes
\* no callback and returns the hypothesis.  Every call without use_callbacks
\* invokes no callback, and every call with use_callbacks returns None.
C11_HypothesisToCallbackOrCaller ==
    [][(last'.op = "process_audio" /\ last'.err = None)
          => /\ (utterance_state = UTT_STARTED /\ Reports' = <<FALSE>>)
                   => /\ Len(HypsAnswered') = 1
                      /\ (last'.arg /\ hypothesis_callback # None)
                            => /\ cbs' = <<[cb |-> "hypothesis",
                                            fn |-> hypothesis_callback,
                                            arg |-> HypsAnswered'[1]]>>
                               /\ last'.ret = None
                      /\ ~last'.arg
                            => /\ cbs' = <<>>
                               /\ last'.ret = HypsAnswered'[1]
             /\ ~last'.arg => cbs' = <<>>
             /\ last'.arg => last'.ret = None]_vars

C11_Witness ==
    /\ last.op = "process_audio"
    /\ ~last.arg
    /\ hypothesis_callback = "g"
    /\ HypsAnswered = <<"hyp2">>
    /\ last.ret = "hyp2"
    /\ cbs = <<>>

\* C12: in every reachable state, also after a call in which the decoder
\* raised, the decoder has an utterance in progress exactly when the state is
\* not ended; the decoder's start_utt was only called with no utterance in
\* progress and its end_utt only with one in progress.
C12_DecoderFlagMatchesState ==
    /\ in_utt <=> utterance_state # UTT_ENDED
    /\ \A n \in 1..Len(calls) :
          /\ calls[n].op = "start_utt" => ~calls[n].val
          /\ calls[n].op = "end_utt" => calls[n].val

C12_Witness ==
    /\ last.op = "batch_process"
    /\ last.err = "RuntimeError"
    /\ Count(calls, "start_utt") = 1
    /\ Count(calls, "end_utt") = 1
    /\ utterance_state = UTT_IDLE
    /\ in_utt

\* a step of one operation on the utterance that enters / leaves started
EntersStarted == utterance_state # UTT_STARTED /\ utterance_state' = UTT_STARTED
LeavesStarted == utterance_state = UTT_STARTED /\ utterance_state' = UTT_ENDED

\* C13 as claimed: with both callbacks set and use_callbacks, whatever the
\* interleaving of process_audio with direct get_in_speech, start_utt and
\* end_utt calls, every move from idle to started comes with exactly one
\* speech-start callback and every move from started to ended with exactly
\* one hypothesis callback.
C13_OneCallbackPerTransition ==
    [][(/\ speech_start_callback # None
        /\ hypothesis_callback # None
        /\ last'.op \in {"process_audio", "get_in_speech", "start_utt", "end_utt"}
        /\ last'.op = "process_audio" => last'.arg)
          => /\ EntersStarted => Fired(cbs') = <<"speech_start">>
             /\ LeavesStarted => Fired(cbs') = <<"hypothesis">>]_vars

\* C13: with both callbacks set and use_callbacks, whatever the interleaving
\* with direct calls, every move from idle to started made by process_audio
\* comes with exactly one speech-start callback and every move from started
\* to ended made by process_audio with exactly one hypothesis callback; the
\* direct get_in_speech, start_utt and end_utt calls invoke no callback.
C13_OneCallbackPerProcessAudioTransition ==
    [][(/\ speech_start_callback # None
        /\ hypothesis_callback # None
        /\ last'.op \in {"process_audio", "get_in_speech", "start_utt", "end_utt"}
        /\ last'.op = "process_audio" => last'.arg)
          => IF last'.op = "process_audio"
             THEN /\ EntersStarted => Fired(cbs') = <<"speech_start">>
                  /\ LeavesStarted => Fired(cbs') = <<"hypothesis">>
             ELSE cbs' = <<>>]_vars

C13_Witness ==
    /\ ~plain
    /\ last.op = "process_audio"
    /\ last.arg
    /\ moves # <<>>
    /\ moves[Len(moves)].from = UTT_IDLE
    /\ utterance_state = UTT_STARTED
    /\ Fired(cbs) = <<"speech_start">>
    /\ hypothesis_callback # None

\* C14: process_audio invokes the speech-start callback only in a call whose
\* snapshot was idle (the state before the call was idle or ended) and in
\* which the decoder reports speech; a call processing a speech buffer while
\* the state is already started invokes no callback, returns None and leaves
\* the state started.
C14_SpeechStartOnlyFromIdle ==
    [][last'.op = "process_audio"
          => /\ (\E n \in 1..Len(cbs') : cbs'[n].cb = "speech_start")
                   => /\ utterance_state \in {UTT_IDLE, UTT_ENDED}
                      /\ Reports' = <<TRUE>>
                      /\ Fired(cbs') = <<"speech_start">>
             /\ (utterance_state = UTT_STARTED /\ Reports' = <<TRUE>>)
                   => /\ cbs' = <<>>
                      /\ last'.ret = None
                      /\ last'.err = None
                      /\ utterance_state' = UTT_STARTED]_vars

C14_Witness ==
    /\ last.op = "process_audio"
    /\ last.arg
    /\ speech_start_callback # None
    /\ Reports = <<TRUE>>
    /\ Count(calls, "start_utt") = 0
    /\ cbs = <<>>
    /\ moves = <<>>
    /\ utterance_state = UTT_STARTED

\* the assignments to the state that the code allows
AllowedMoves ==
    {<<UTT_ENDED, UTT_IDLE>>, <<UTT_IDLE, UTT_STARTED>>,
     <<UTT_IDLE, UTT_ENDED>>, <<UTT_STARTED, UTT_ENDED>>}

\* the assignments of one operation lead from state `from' to state `to'
RECURSIVE Chain(_, _, _)
Chain(from, log, to) ==
    IF log = <<>> THEN from = to
    ELSE Head(log).from = from /\ Chain(Head(log).to, Tail(log), to)

\* C15: the state changes only by the assignments of the operations, each
\* along ended -> idle, idle -> started, idle -> ended or started -> ended;
\* an assignment of started immediately follows a get_in_speech the decoder
\* answered with True.  No assignment goes ended -> started or started ->
\* idle.
C15_OnlyAllowedMoves ==
    [][/\ Chain(utterance_state, moves', utterance_state')
       /\ \A n \in 1..Len(moves') :
             /\ <<moves'[n].from, moves'[n].to>> \in AllowedMoves
             /\ moves'[n].to = UTT_STARTED
                   => /\ moves'[n].at >= 1
                      /\ calls'[moves'[n].at] = Call("get_in_speech", TRUE)]_vars

C15_Witness ==
    /\ last.op = "process_audio"
    /\ Len(moves) = 2
    /\ <<moves[1].from, moves[1].to>> = <<UTT_ENDED, UTT_IDLE>>
    /\ <<moves[2].from, moves[2].to>> = <<UTT_IDLE, UTT_STARTED>>
    /\ utterance_state = UTT_STARTED

\* C16: after a process_audio call that returns normally the state is
\* started exactly when the decoder reported speech for the buffer, ended
\* exactly when the state before was started and the decoder reported no
\* speech (and the decoder's end_utt was called once), and idle otherwise.
C16_PostState ==
    [][(last'.op = "process_audio" /\ last'.err = None)
          => /\ Len(Reports') = 1
             /\ utterance_state' = UTT_STARTED <=> Reports'[1]
             /\ utterance_state' = UTT_ENDED
                   <=> (utterance_state = UTT_STARTED /\ ~Reports'[1])
             /\ utterance_state' = UTT_ENDED => Count(calls', "end_utt") = 1
             /\ (~Reports'[1] /\ utterance_state # UTT_STARTED)
                   => utterance_state' = UTT_IDLE]_vars

C16_Witness ==
    /\ last.op = "process_audio"
    /\ last.err = None
    /\ Reports = <<FALSE>>
    /\ Count(calls, "end_utt") = 1
    /\ utterance_state = UTT_ENDED
    /\ ~in_utt

\* the names of the decoder calls of the last operation, in order
Ops(log) == [i \in 1..Len(log) |-> log[i].op]

\* C17: the decoder's process_raw is only called with a decoder utterance in
\* progress, after the decoder's start_utt when the state was ended; the
\* decoder's hyp is only called right after the decoder's end_utt, with no
\* decoder call in between.
C17_DecoderCallOrder ==
    [][last'.op \in {"process_audio", "batch_process"}
          => /\ \A n \in 1..Len(calls') :
                   /\ calls'[n].op = "process_raw" => calls'[n].val
                   /\ calls'[n].op = "hyp"
                         => (n > 1 /\ calls'[n - 1].op = "end_utt")
             /\ (utterance_state = UTT_ENDED /\ last'.op = "process_audio")
                   => (/\ Len(calls') >= 2
                       /\ calls'[1].op = "start_utt"
                       /\ calls'[2].op = "process_raw")]_vars

C17_Witness ==
    /\ last.op = "batch_process"
    /\ Ops(calls) = <<"start_utt", "process_raw", "get_in_speech",
                      "process_raw", "get_in_speech", "end_utt", "hyp">>

\* the last hypothesis of the sequence that is not empty, None without one
RECURSIVE LastNonEmpty(_)
LastNonEmpty(h) ==
    IF h = <<>> THEN None
    ELSE IF h[Len(h)] # None THEN h[Len(h)]
    ELSE LastNonEmpty(SubSeq(h, 1, Len(h) - 1))

\* C18: batch_process without use_callbacks returns the last hypothesis of
\* its process_audio calls that is not empty, None when there is none; with
\* use_callbacks it returns None.
C18_BatchReturnsLastNonEmpty ==
    (last.op = "batch_process" /\ last.err = None)
       => last.ret = IF last.arg THEN None ELSE LastNonEmpty(HypsAnswered)

C18_Witness ==
    /\ last.op = "batch_process"
    /\ ~last.arg
    /\ last.err = None
    /\ HypsAnswered = <<"hyp1", None>>
    /\ last.ret = "hyp1"

\* C20: in a sequence of process_audio and batch_process calls only, from
\* the ended state, with both callbacks set and use_callbacks, the callback
\* invocations alternate, the first being speech-start.
C20_CallbacksAlternate ==
    (plain /\ cb_always)
       => \A n \in 1..Len(fired) :
             fired[n] = IF n % 2 = 1 THEN "speech_start" ELSE "hypothesis"

C20_Witness ==
    /\ plain
    /\ cb_always
    /\ last.op = "process_audio"
    /\ fired = <<"speech_start", "hypothesis", "speech_start", "hypothesis">>

(* =================== properties of the keyword search ================== *)
\* the mapping set_kws_list works on: dict(kws_list) for a list or tuple
Mapping(kws_list) ==
    IF kws_list.kind \in {"list", "tuple"} THEN dict(kws_list.items) ELSE kws_list.items

\* one line per phrase of the mapping
LinesOf(d) == [i \in 1..Len(d) |-> Line(d[i][1], d[i][2])]

AllNumeric(d) == \A i \in 1..Len(d) : d[i][2] \in Numbers

\* the last operation was set_kws_list with a keyword list that is not empty,
\* and tempfile created its file
KwsCallWithFile ==
    /\ last.op = "set_kws_list"
    /\ ~(last.arg.kws_list.kind = "None" \/ last.arg.kws_list.items = <<>>)
    /\ last.arg.path # NoPath

\* C6 as claimed: a keyword list with a non-numeric threshold makes
\* set_kws_list raise PocketSphinxError, and the temporary file of that call is
\* gone when the call exits.
C6_ValidationErrorLeavesNoFile ==
    (KwsCallWithFile /\ ~AllNumeric(Mapping(last.arg.kws_list)))
        => /\ last.err = "PocketSphinxError"
           /\ last.arg.path \notin files

\* C7 as claimed: when the decoder's set_kws raises, the error reaches the
\* caller and the temporary file of that call is gone when the call exits.
C7_RejectedFileIsDeleted ==
    (/\ KwsCallWithFile
     /\ \E n \in 1..Len(calls) : calls[n].op = "set_kws" /\ calls[n].val.raised)
        => /\ last.err = "RuntimeError"
           /\ last.arg.path \notin files

\* C8: when every threshold of a non-empty keyword list is numeric, set_kws is
\* called exactly once, with the name given and the path of a file that exists,
\* is closed and holds one line per phrase; and when set_kws_list returns, the
\* file is gone.
C8_RegistersClosedFileThenDeletes ==
    (KwsCallWithFile /\ AllNumeric(Mapping(last.arg.kws_list)))
        => /\ Len(calls) = 1
           /\ calls[1].op = "set_kws"
           /\ calls[1].val.name = last.arg.name
           /\ calls[1].val.path = last.arg.path
           /\ calls[1].val.exists
           /\ calls[1].val.closed
           /\ calls[1].val.lines = LinesOf(Mapping(last.arg.kws_list))
           /\ last.err = None => (last.arg.path \notin files /\ ~calls[1].val.raised)

C8_Witness ==
    /\ KwsCallWithFile
    /\ last.arg.name = "kw1"
    /\ last.arg.kws_list = [kind |-> "dict", items |-> << <<"hello world", "1e-20">> >>]
    /\ last.err = None
    /\ "kw1" \in searches
    /\ files = {}

\* C10: set_kws_list with None, an empty list, an empty tuple or an empty dict
\* calls no set_kws, creates no file, raises nothing and leaves the searches
\* and the session as they were.
C10_EmptyListIsNoOp ==
    [][(/\ last'.op = "set_kws_list"
        /\ (last'.arg.kws_list.kind = "None" \/ last'.arg.kws_list.items = <<>>))
          => /\ calls' = <<>>
             /\ last'.err = None
             /\ UNCHANGED <<files, searches, utterance_state, in_utt, slot_vars>>]_vars

C10_Witness ==
    /\ last.op = "set_kws_list"
    /\ last.arg.kws_list = [kind |-> "tuple", items |-> <<>>]
    /\ utterance_state = UTT_IDLE
    /\ calls = <<>>

\* C19: when set_kws_list is given a threshold that is not a number, at any
\* position of the mapping, it raises PocketSphinxError without having made
\* any decoder call: no set_kws, and so the registered searches and the
\* active search of the decoder are as before.
C19_ValidationErrorRegistersNothing ==
    [][(KwsCallWithFile' /\ ~AllNumeric(Mapping(last'.arg.kws_list)))
          => /\ last'.err = "PocketSphinxError"
             /\ calls' = <<>>
             /\ searches' = searches]_vars

C19_Witness ==
    /\ KwsCallWithFile
    /\ last.arg.kws_list = [kind |-> "dict",
                            items |-> << <<"hello world", "1e-20">>,
                                         <<"test", "bad">> >>]
    /\ last.err = "PocketSphinxError"
    /\ calls = <<>>
    /\ searches = {"kw1"}

====
